---- MODULE Spec2Model ----
(***************************************************************************)
(* Model of crime-radio-search (src/server.py): the two tool handlers      *)
(* search_crime_events and get_crime_stats, the helpers they share         *)
(* (parse_val, build_geo_query, build_time_query, serialize_document) and  *)
(* the external store, which answers every find/aggregate either by        *)
(* raising or with a result.                                               *)
(*                                                                         *)
(* Python values are records [t, n, s, ks, items]: t is the type tag, n    *)
(* the number (int, float, datetime instant), s the characters of a str,   *)
(* items the elements of a list or the values of a dict whose keys are ks. *)
(* A str is the sequence of its characters.  Instants are whole hours      *)
(* counted from datetime.min.  Dicts built by the code (queries,           *)
(* responses) are functions from key to value.                             *)
(***************************************************************************)
EXTENDS Integers, Sequences, FiniteSets, TLC

VARIABLES now, pc, call, sent, resp

vars == <<now, pc, call, sent, resp>>

-----------------------------------------------------------------------------
(* Bounds of the model *)

\* hours_back ranges over -MaxHours .. MaxHours (and the special values below)
MaxHours == 2
\* the clock advances at most MaxTick hours past NowBase
MaxTick == 1
\* the store returns at most MaxDocs documents to one find
MaxDocs == 1

-----------------------------------------------------------------------------
(* Python values *)

V(t, n, s, ks, items) == [t |-> t, n |-> n, s |-> s, ks |-> ks, items |-> items]
None == V("none", 0, <<>>, <<>>, <<>>)
IntV(n) == V("int", n, <<>>, <<>>, <<>>)
FloatV(n) == V("float", n, <<>>, <<>>, <<>>)
StrV(s) == V("str", 0, s, <<>>, <<>>)
BoolV(b) == V("bool", IF b THEN 1 ELSE 0, <<>>, <<>>, <<>>)
DatetimeV(n) == V("datetime", n, <<>>, <<>>, <<>>)
\* a value of a type the driver defines (bson ObjectId); s is its str() form
OpaqueV(s) == V("objectid", 0, s, <<>>, <<>>)
ListV(items) == V("list", 0, <<>>, <<>>, items)
DictV(ks, items) == V("dict", 0, <<>>, ks, items)

\* bool(value): what `if value` and `value or default` test
Truthy(v) ==
    CASE v.t = "none" -> FALSE
      [] v.t \in {"int", "float", "bool"} -> v.n # 0
      [] v.t = "str" -> Len(v.s) > 0
      [] v.t \in {"list", "dict"} -> Len(v.items) > 0
      [] OTHER -> TRUE

\* value or default
Or(v, d) == IF Truthy(v) THEN v ELSE d

Min(a, b) == IF a <= b THEN a ELSE b

-----------------------------------------------------------------------------
(* str methods *)

Digits == <<"0", "1", "2", "3", "4", "5", "6", "7", "8", "9">>
UpperAlpha == <<"A", "B", "C", "D", "E", "F", "G", "H", "I", "J", "K", "L", "M",
                "N", "O", "P", "Q", "R", "S", "T", "U", "V", "W", "X", "Y", "Z">>
LowerAlpha == <<"a", "b", "c", "d", "e", "f", "g", "h", "i", "j", "k", "l", "m",
                "n", "o", "p", "q", "r", "s", "t", "u", "v", "w", "x", "y", "z">>

IsDigit(c) == \E i \in 1..10 : Digits[i] = c
DigitVal(c) == (CHOOSE i \in 1..10 : Digits[i] = c) - 1

LowerChar(c) ==
    IF \E i \in 1..26 : UpperAlpha[i] = c
    THEN LowerAlpha[CHOOSE i \in 1..26 : UpperAlpha[i] = c]
    ELSE c

\* s.lower()
Lower(s) == [i \in 1..Len(s) |-> LowerChar(s[i])]

RECURSIVE LStrip(_)
LStrip(s) == IF s # <<>> /\ Head(s) = " " THEN LStrip(Tail(s)) ELSE s

RECURSIVE RStrip(_)
RStrip(s) == IF s # <<>> /\ s[Len(s)] = " " THEN RStrip(SubSeq(s, 1, Len(s) - 1)) ELSE s

\* s.strip()
Strip(s) == RStrip(LStrip(s))

\* s.split(','): always at least one piece
RECURSIVE SplitFrom(_, _)
SplitFrom(s, cur) ==
    IF s = <<>> THEN <<cur>>
    ELSE IF Head(s) = "," THEN <<cur>> \o SplitFrom(Tail(s), <<>>)
    ELSE SplitFrom(Tail(s), Append(cur, Head(s)))

Split(s) == SplitFrom(s, <<>>)

\* [z.strip() for z in s.split(',')]
SplitStrip(s) == LET p == Split(s) IN [i \in 1..Len(p) |-> Strip(p[i])]

RECURSIVE NatToStr(_)
NatToStr(n) == IF n < 10 THEN <<Digits[n + 1]>> ELSE Append(NatToStr(n \div 10), Digits[(n % 10) + 1])

\* str(n) of an int
IntToStr(n) == IF n < 0 THEN <<"-">> \o NatToStr(-n) ELSE NatToStr(n)

RECURSIVE DigitsToNat(_, _)
DigitsToNat(s, acc) == IF s = <<>> THEN acc ELSE DigitsToNat(Tail(s), 10 * acc + DigitVal(Head(s)))

\* the decimal literals int(str) and float(str) accept: optional surrounding
\* blanks, an optional sign, at least one digit
IsIntLiteral(s) ==
    LET u == Strip(s)
        d == IF u # <<>> /\ Head(u) \in {"-", "+"} THEN Tail(u) ELSE u
    IN  d # <<>> /\ \A i \in 1..Len(d) : IsDigit(d[i])

IntLiteral(s) ==
    LET u == Strip(s)
    IN  IF Head(u) = "-" THEN -DigitsToNat(Tail(u), 0)
        ELSE IF Head(u) = "+" THEN DigitsToNat(Tail(u), 0)
        ELSE DigitsToNat(u, 0)

\* str(value)
Str(v) ==
    CASE v.t = "str" -> v.s
      [] v.t = "int" -> IntToStr(v.n)
      [] v.t = "float" -> IntToStr(v.n) \o <<".", "0">>
      [] v.t = "bool" -> IF v.n = 1 THEN <<"T", "r", "u", "e">> ELSE <<"F", "a", "l", "s", "e">>
      [] v.t = "none" -> <<"N", "o", "n", "e">>
      [] v.t = "objectid" -> v.s
      [] OTHER -> <<"?">>

\* datetime.isoformat()
IsoFormat(n) == <<"T">> \o IntToStr(n)

-----------------------------------------------------------------------------
(* parse_val *)

parse_val(value, target_type) ==
    IF value.t = "none" THEN None
    ELSE CASE target_type = "str" -> StrV(Str(value))
           [] target_type = "int" ->
                CASE value.t \in {"int", "float", "bool"} -> IntV(value.n)
                  [] value.t = "str" -> IF IsIntLiteral(value.s) THEN IntV(IntLiteral(value.s)) ELSE None
                  [] OTHER -> None
           [] target_type = "float" ->
                CASE value.t \in {"int", "float", "bool"} -> FloatV(value.n)
                  [] value.t = "str" -> IF IsIntLiteral(value.s) THEN FloatV(IntLiteral(value.s)) ELSE None
                  [] OTHER -> None
           [] OTHER -> value

-----------------------------------------------------------------------------
(* dict helpers *)

\* dict.update(other): keys of other are added or overwritten
Update(query, other) ==
    [k \in DOMAIN query \cup DOMAIN other |-> IF k \in DOMAIN other THEN other[k] ELSE query[k]]

\* d[key] = value
SetItem(query, key, value) == Update(query, key :> value)

\* d.get(key, default)
Get(d, key, default) == IF key \in DOMAIN d THEN d[key] ELSE default

EmptyDict == <<>>

-----------------------------------------------------------------------------
(* the clock: datetime.now(timezone.utc), in hours since datetime.min *)

\* an instant in 2026
NowBase == 17758140
\* datetime.max
DatetimeMaxHours == 87649416

\* end_time - timedelta(hours=hours_back) raises OverflowError outside
\* datetime.min .. datetime.max
TimeOverflow(hours_back) ==
    LET start_time == now - hours_back
    IN  start_time < 0 \/ start_time > DatetimeMaxHours

build_time_query(hours_back) ==
    LET end_time == now
        start_time == end_time - hours_back
    IN  "updated_at" :> ("$gte" :> start_time @@ "$lte" :> end_time)

\* build_geo_query with the coordinates in latitude, longitude order
build_geo_query_latlon(lat, lon, radius_km) ==
    "geopoint" :>
        ("$near" :>
            ("$geometry" :> ("type" :> "Point" @@ "coordinates" :> <<lat, lon>>)
             @@ "$maxDistance" :> radius_km * 1000))

build_geo_query(lat, lon, radius_km) ==
    "geopoint" :>
        ("$near" :>
            ("$geometry" :> ("type" :> "Point" @@ "coordinates" :> <<lon, lat>>)
             @@ "$maxDistance" :> radius_km * 1000))

-----------------------------------------------------------------------------
(* serialize_document *)

serialize_document(doc) ==
    [key \in DOMAIN doc |->
        LET value == doc[key]
        IN  IF value.t = "datetime" THEN StrV(IsoFormat(value.n))
            ELSE IF value.t \in {"int", "float", "str", "bool", "list", "dict"} THEN value
            ELSE StrV(Str(value))]

-----------------------------------------------------------------------------
(* search_crime_events *)

\* lines 97-105: the coerced parameters, as query_params reports them
ParseSearch(a) ==
    [zipcode |-> parse_val(a.zipcode, "str"),
     city_pid |-> parse_val(a.city_pid, "str"),
     latitude |-> parse_val(a.latitude, "float"),
     longitude |-> parse_val(a.longitude, "float"),
     radius_km |-> Or(parse_val(a.radius_km, "float"), FloatV(5)),
     hours_back |-> Or(parse_val(a.hours_back, "int"), IntV(24)),
     limit |-> IntV(Min(Or(parse_val(a.limit, "int"), IntV(10)).n, 100)),
     category |-> parse_val(a.category, "str"),
     risk_level |-> parse_val(a.risk_level, "str")]

ZipcodeFilter(zipcode_val) ==
    "zipcodes" :> ("$elemMatch" :> ("$in" :> SplitStrip(zipcode_val.s)))

CityFilter(city_pid_val) == "city_pid" :> city_pid_val.s

\* lines 114-125
LocationFilters(p) ==
    (IF Truthy(p.zipcode) THEN <<ZipcodeFilter(p.zipcode)>> ELSE <<>>)
    \o (IF Truthy(p.city_pid) THEN <<CityFilter(p.city_pid)>> ELSE <<>>)
    \o (IF p.latitude.t # "none" /\ p.longitude.t # "none"
        THEN <<build_geo_query(p.latitude.n, p.longitude.n, p.radius_km.n)>>
        ELSE <<>>)

\* CombineLocation wrapping a single filter in $or too
CombineLocationAlwaysOr(query, location_filters) ==
    IF Len(location_filters) > 0
    THEN SetItem(query, "$or", location_filters)
    ELSE query

\* CombineLocation with `query = location_filters[0]` for a single filter
CombineLocationReplace(query, location_filters) ==
    IF Len(location_filters) > 0
    THEN IF Len(location_filters) = 1
         THEN location_filters[1]
         ELSE SetItem(query, "$or", location_filters)
    ELSE query

\* lines 128-132
CombineLocation(query, location_filters) ==
    IF Len(location_filters) > 0
    THEN IF Len(location_filters) = 1
         THEN Update(query, location_filters[1])
         ELSE SetItem(query, "$or", location_filters)
    ELSE query

\* lines 135-136
CategoryFilter(query, category_val) ==
    IF Truthy(category_val)
    THEN SetItem(query, "category", ("$regex" :> category_val.s @@ "$options" :> <<"i">>))
    ELSE query

RiskLevels == {<<"l", "o", "w">>, <<"m", "e", "d", "i", "u", "m">>, <<"h", "i", "g", "h">>}

\* RiskFilter comparing and storing risk_val as given, without lower()
RiskFilterNoLower(query, risk_val) ==
    IF Truthy(risk_val) /\ risk_val.s \in RiskLevels
    THEN SetItem(query, "risk", risk_val.s)
    ELSE query

\* lines 139-140
RiskFilter(query, risk_val) ==
    IF Truthy(risk_val) /\ Lower(risk_val.s) \in RiskLevels
    THEN SetItem(query, "risk", Lower(risk_val.s))
    ELSE query

\* lines 141 and 212
AddressTypeFilter(query) == SetItem(query, "address_type", "POI")

\* lines 108-141
SearchQuery(p) ==
    LET q0 == Update(EmptyDict, build_time_query(p.hours_back.n))
        q1 == CombineLocation(q0, LocationFilters(p))
        q2 == CategoryFilter(q1, p.category)
        q3 == RiskFilter(q2, p.risk_level)
    IN  AddressTypeFilter(q3)

\* lines 147-167
SearchSuccess(p, query, docs) ==
    LET results == [i \in 1..Len(docs) |-> serialize_document(docs[i])]
    IN  [success |-> TRUE,
         query |-> query,
         query_params |-> p,
         results_count |-> Len(results),
         results |-> results]

\* SearchFailure echoing the coerced parameters
SearchFailureCoerced(a) ==
    [success |-> FALSE,
     error |-> "Search failed",
     query_params |-> ParseSearch(a),
     results_count |-> 0,
     results |-> <<>>]

\* lines 169-186
SearchFailure(a) ==
    [success |-> FALSE,
     error |-> "Search failed",
     query_params |-> a,
     results_count |-> 0,
     results |-> <<>>]

-----------------------------------------------------------------------------
(* get_crime_stats *)

\* lines 198-200
ParseStats(a) ==
    [zipcode |-> parse_val(a.zipcode, "str"),
     city_pid |-> parse_val(a.city_pid, "str"),
     hours_back |-> Or(parse_val(a.hours_back, "int"), IntV(24))]

\* StatsLocation with `if` in place of `elif`
StatsLocationBoth(query, zipcode_val, city_pid_val) ==
    LET q1 == IF Truthy(zipcode_val)
              THEN SetItem(query, "zipcodes", ("$elemMatch" :> ("$in" :> SplitStrip(zipcode_val.s))))
              ELSE query
    IN  IF Truthy(city_pid_val) THEN SetItem(q1, "city_pid", city_pid_val.s) ELSE q1

\* lines 206-211
StatsLocation(query, zipcode_val, city_pid_val) ==
    IF Truthy(zipcode_val)
    THEN SetItem(query, "zipcodes", ("$elemMatch" :> ("$in" :> SplitStrip(zipcode_val.s))))
    ELSE IF Truthy(city_pid_val)
    THEN SetItem(query, "city_pid", city_pid_val.s)
    ELSE query

\* lines 203-212
StatsQuery(p) ==
    AddressTypeFilter(StatsLocation(build_time_query(p.hours_back.n), p.zipcode, p.city_pid))

\* lines 247-249
RECURSIVE Tally(_, _)
Tally(risk_levels, risk_distribution) ==
    IF risk_levels = <<>> THEN risk_distribution
    ELSE LET risk == Head(risk_levels)
         IN  Tally(Tail(risk_levels),
                   SetItem(risk_distribution, risk, Get(risk_distribution, risk, 0) + 1))

\* round(x, 2) raises TypeError unless x is a number
RoundRaises(x) == x.t \notin {"int", "float", "bool"}

\* round(x, 2) of the whole numbers the model carries
Round2(x) == V(x.t, x.n, <<>>, <<>>, <<>>)

\* lines 236-242
StatsEmpty(p) ==
    [success |-> TRUE,
     location |-> [zipcode |-> p.zipcode, city_pid |-> p.city_pid],
     time_period_hours |-> p.hours_back,
     total_events |-> 0,
     statistics |-> EmptyDict]

\* lines 265-273
StatsFailure(a) ==
    [success |-> FALSE,
     error |-> "Statistics query failed",
     location |-> [zipcode |-> a.zipcode, city_pid |-> a.city_pid],
     time_period_hours |-> a.hours_back,
     total_events |-> 0,
     statistics |-> EmptyDict]

\* lines 244-263; round() raising lands in the except clause
StatsSuccess(p, a, stats) ==
    LET risk_distribution == Tally(Get(stats, "risk_levels", <<>>), EmptyDict)
        avg == Get(stats, "avg_audio_duration", IntV(0))
        latest == Get(stats, "latest_event", None)
        earliest == Get(stats, "earliest_event", None)
    IN  IF RoundRaises(avg) THEN StatsFailure(a)
        ELSE [success |-> TRUE,
              location |-> [zipcode |-> p.zipcode, city_pid |-> p.city_pid],
              time_period_hours |-> p.hours_back,
              total_events |-> Get(stats, "total_events", 0),
              statistics |->
                  [categories |-> Get(stats, "categories", <<>>),
                   risk_distribution |-> risk_distribution,
                   avg_audio_duration |-> Round2(avg),
                   latest_event |-> IF Truthy(latest) THEN StrV(IsoFormat(latest.n)) ELSE None,
                   earliest_event |-> IF Truthy(earliest) THEN StrV(IsoFormat(earliest.n)) ELSE None]]

-----------------------------------------------------------------------------
(* the arguments callers pass *)

NoStr == StrV(<<>>)
Malformed == StrV(<<"x">>)

Zipcodes == {None, NoStr, StrV(<<"9", "5">>), StrV(<<" ", "9", "5", ",", " ", "9", "6">>)}
Cities == {None, NoStr, StrV(<<"s", "f", ",", "c", "a">>)}
Latitudes == {None, IntV(0), FloatV(2), Malformed, StrV(<<"-", "3">>)}
Longitudes == {None, IntV(0), FloatV(-7), Malformed}
Radii == {None, FloatV(5), IntV(0), IntV(2), Malformed}
\* more hours than datetime.min .. datetime.max holds
HugeHours == DatetimeMaxHours + 1
HoursBack ==
    {None, Malformed, StrV(<<" ", "3", " ">>), IntV(24), IntV(HugeHours)}
        \cup {IntV(h) : h \in (-MaxHours)..MaxHours}
Limits ==
    {None, Malformed, StrV(<<"2", "0">>), IntV(10), IntV(0), IntV(-5), IntV(7),
     IntV(100), IntV(101), IntV(500)}
Categories == {None, NoStr, StrV(<<"t", "h", "e", "f", "t">>)}
Risks ==
    {None, NoStr, StrV(<<"h", "i", "g", "h">>), StrV(<<"H", "I", "G", "H">>),
     StrV(<<"L", "o", "w">>), StrV(<<"m", "e", "d", "i", "u", "m">>),
     StrV(<<"c", "r", "i", "t", "i", "c", "a", "l">>), StrV(<<" ", "l", "o", "w">>), IntV(7)}

Args(zs, cs, las, los, rs, hs, ls, cats, risks) ==
    [zipcode : zs, city_pid : cs, latitude : las, longitude : los, radius_km : rs,
     hours_back : hs, limit : ls, category : cats, risk_level : risks]

\* every combination of the location arguments, with and without the other
\* filters; every combination of hours_back and limit; every combination of
\* category and risk_level with zipcode and city_pid
SearchArgs ==
    Args(Zipcodes, Cities, Latitudes, Longitudes, Radii, {IntV(24)}, {IntV(10)},
         {None, StrV(<<"t", "h", "e", "f", "t">>)}, {None, StrV(<<"H", "I", "G", "H">>)})
    \cup Args({None, StrV(<<"9", "5">>)}, {None}, {None, FloatV(2)}, {None, IntV(0)}, {FloatV(5)},
              HoursBack, Limits, {None}, {None})
    \cup Args(Zipcodes, Cities, {None}, {None}, {FloatV(5)}, {IntV(24)}, {IntV(10)},
              Categories, Risks)

StatsArgs == [zipcode : Zipcodes, city_pid : Cities, hours_back : HoursBack]

-----------------------------------------------------------------------------
(* the store *)

Doc1 ==
    "_id" :> OpaqueV(<<"6", "a", "1">>)
    @@ "category" :> StrV(<<"t", "h", "e", "f", "t">>)
    @@ "updated_at" :> DatetimeV(NowBase)
    @@ "audio_duration" :> None
    @@ "geopoint" :> DictV(<<"type", "coordinates">>,
                           <<StrV(<<"P", "o", "i", "n", "t">>), ListV(<<FloatV(-7), FloatV(2)>>)>>)

Doc2 ==
    "_id" :> OpaqueV(<<"6", "a", "2">>)
    @@ "zipcodes" :> ListV(<<StrV(<<"9", "5">>)>>)
    @@ "history" :> ListV(<<DatetimeV(NowBase - 1)>>)

Doc3 ==
    "risk" :> StrV(<<"l", "o", "w">>)
    @@ "source" :> DictV(<<"ref">>, <<OpaqueV(<<"6", "a", "3">>)>>)

Docs == {Doc1, Doc2, Doc3}

DocSeqs == UNION {[1..n -> Docs] : n \in 0..MaxDocs}

\* collection.find(query).sort(...).limit(...) and the iteration of its cursor
FindOutcomes ==
    {[raises |-> TRUE, docs |-> <<>>]} \cup {[raises |-> FALSE, docs |-> d] : d \in DocSeqs}

Group(n, risks, avg, latest) ==
    "_id" :> None
    @@ "total_events" :> n
    @@ "categories" :> <<StrV(<<"t", "h", "e", "f", "t">>)>>
    @@ "risk_levels" :> risks
    @@ "avg_audio_duration" :> avg
    @@ "latest_event" :> latest
    @@ "earliest_event" :> latest

Groups ==
    {Group(3, <<<<"l", "o", "w">>, <<"l", "o", "w">>, <<"h", "i", "g", "h">>>>, avg, latest) :
        avg \in {None, FloatV(12)}, latest \in {None, DatetimeV(NowBase)}}

\* list(collection.aggregate(pipeline)): no group when nothing matches
AggregateOutcomes ==
    {[raises |-> TRUE, groups |-> <<>>], [raises |-> FALSE, groups |-> <<>>]}
        \cup {[raises |-> FALSE, groups |-> <<g>>] : g \in Groups}

-----------------------------------------------------------------------------
(* the state machine *)

NoCall == [op |-> "none", args |-> <<>>]
NoRequest == [kind |-> "none", query |-> EmptyDict, limit |-> 0, raised |-> FALSE,
              reply |-> <<>>]
NoResponse == EmptyDict

Init ==
    /\ now = NowBase
    /\ pc = "idle"
    /\ call = NoCall
    /\ sent = NoRequest
    /\ resp = NoResponse

\* time passes between two requests
Tick ==
    /\ pc = "idle"
    /\ now < NowBase + MaxTick
    /\ now' = now + 1
    /\ UNCHANGED <<pc, call, sent, resp>>

search_crime_events ==
    /\ pc = "idle"
    /\ \E a \in SearchArgs, o \in FindOutcomes :
        LET p == ParseSearch(a)
        IN  /\ call' = [op |-> "search_crime_events", args |-> a]
            /\ IF TimeOverflow(p.hours_back.n)
               THEN /\ sent' = NoRequest
                    /\ resp' = SearchFailure(a)
               ELSE LET query == SearchQuery(p)
                    IN  /\ sent' = [kind |-> "find", query |-> query, limit |-> p.limit.n,
                                    raised |-> o.raises, reply |-> o.docs]
                        /\ resp' = IF o.raises THEN SearchFailure(a)
                                   ELSE SearchSuccess(p, query, o.docs)
    /\ pc' = "returned"
    /\ UNCHANGED now

get_crime_stats ==
    /\ pc = "idle"
    /\ \E a \in StatsArgs, o \in AggregateOutcomes :
        LET p == ParseStats(a)
        IN  /\ call' = [op |-> "get_crime_stats", args |-> a]
            /\ IF TimeOverflow(p.hours_back.n)
               THEN /\ sent' = NoRequest
                    /\ resp' = StatsFailure(a)
               ELSE LET query == StatsQuery(p)
                    IN  /\ sent' = [kind |-> "aggregate", query |-> query, limit |-> 0,
                                    raised |-> o.raises, reply |-> o.groups]
                        /\ resp' = IF o.raises THEN StatsFailure(a)
                                   ELSE IF o.groups = <<>> THEN StatsEmpty(p)
                                   ELSE StatsSuccess(p, a, o.groups[1])
    /\ pc' = "returned"
    /\ UNCHANGED now

\* the response goes back to the caller; nothing of the request is kept
Return ==
    /\ pc = "returned"
    /\ pc' = "idle"
    /\ call' = NoCall
    /\ sent' = NoRequest
    /\ resp' = NoResponse
    /\ UNCHANGED now

Next == Tick \/ search_crime_events \/ get_crime_stats \/ Return

Spec == Init /\ [][Next]_vars

-----------------------------------------------------------------------------
(* what the properties below speak of *)

Searched == pc = "returned" /\ call.op = "search_crime_events"
Summarised == pc = "returned" /\ call.op = "get_crime_stats"
FindSent == Searched /\ sent.kind = "find"
AggregateSent == Summarised /\ sent.kind = "aggregate"
Answered == pc = "returned" /\ sent.kind # "none" /\ ~sent.raised

LocationKeys == {"zipcodes", "city_pid", "geopoint"}
LocationRank(k) == CASE k = "zipcodes" -> 1 [] k = "city_pid" -> 2 [] k = "geopoint" -> 3 [] OTHER -> 4
KeyOf(pred) == CHOOSE k \in DOMAIN pred : TRUE

\* the location predicates a query carries, at the top level or under $or
LocationPredicates(q) ==
    {k :> q[k] : k \in DOMAIN q \cap LocationKeys}
        \cup (IF "$or" \in DOMAIN q THEN {q["$or"][i] : i \in 1..Len(q["$or"])} ELSE {})

\* the keys of the location predicates the arguments call for, in order
ExpectedLocationKeys(p) ==
    (IF Truthy(p.zipcode) THEN <<"zipcodes">> ELSE <<>>)
    \o (IF Truthy(p.city_pid) THEN <<"city_pid">> ELSE <<>>)
    \o (IF p.latitude.t # "none" /\ p.longitude.t # "none" THEN <<"geopoint">> ELSE <<>>)

RECURSIVE IsJSON(_)
IsJSON(v) ==
    CASE v.t \in {"none", "int", "float", "str", "bool"} -> TRUE
      [] v.t \in {"list", "dict"} -> \A i \in 1..Len(v.items) : IsJSON(v.items[i])
      [] OTHER -> FALSE

\* s and t are the same up to the case of their letters
SameIgnoringCase(s, t) ==
    Len(s) = Len(t) /\ \A i \in 1..Len(s) : LowerChar(s[i]) = LowerChar(t[i])

-----------------------------------------------------------------------------
(* C1: in search_crime_events the location part of the query depends only  *)
(* on the location predicates produced: none, and the query has no         *)
(* zipcodes, city_pid, geopoint or $or key; one, and its key sits at the   *)
(* top level without $or; two or more, and $or holds exactly them in the   *)
(* order zipcode, city_pid, geo, none of them at the top level.            *)
C1_LocationShape ==
    FindSent =>
        LET p == ParseSearch(call.args)
            lf == LocationFilters(p)
            q == sent.query
        IN  /\ [i \in 1..Len(lf) |-> KeyOf(lf[i])] = ExpectedLocationKeys(p)
            /\ Len(lf) = 0 => DOMAIN q \cap (LocationKeys \cup {"$or"}) = {}
            /\ Len(lf) = 1 =>
                /\ "$or" \notin DOMAIN q
                /\ DOMAIN q \cap LocationKeys = DOMAIN lf[1]
                /\ q[KeyOf(lf[1])] = lf[1][KeyOf(lf[1])]
            /\ Len(lf) >= 2 =>
                /\ "$or" \in DOMAIN q
                /\ q["$or"] = lf
                /\ DOMAIN q \cap LocationKeys = {}
                /\ \A i, j \in 1..Len(lf) :
                      i < j => LocationRank(KeyOf(lf[i])) < LocationRank(KeyOf(lf[j]))
            /\ resp.success => resp.query = q

C1_Witness ==
    /\ FindSent
    /\ "$or" \in DOMAIN sent.query
    /\ Len(sent.query["$or"]) = 3

(* C2: for every limit passed to search_crime_events the effective limit,  *)
(* as sent to the store and as reported in query_params, is an integer in  *)
(* 1..100; limit=500 gives 100 and limit=None gives 10.                    *)
C2_LimitInRange ==
    Searched =>
        /\ sent.kind = "find" => sent.limit \in 1..100
        /\ resp.success =>
            /\ resp.query_params.limit.t = "int"
            /\ resp.query_params.limit.n \in 1..100
            /\ resp.query_params.limit.n = sent.limit
        /\ sent.kind = "find" /\ call.args.limit = IntV(500) => sent.limit = 100
        /\ sent.kind = "find" /\ call.args.limit = None => sent.limit = 10

(* C3: every query sent to the store by either operation has, at the top   *)
(* level, the updated_at clause with a lower and an upper bound and        *)
(* address_type = "POI".                                                   *)
C3_TimeAndPOI ==
    sent.kind \in {"find", "aggregate"} =>
        LET q == sent.query
        IN  /\ "updated_at" \in DOMAIN q
            /\ DOMAIN q["updated_at"] = {"$gte", "$lte"}
            /\ "address_type" \in DOMAIN q
            /\ q["address_type"] = "POI"

C3_Witness ==
    /\ FindSent
    /\ {"zipcodes", "category", "risk"} \subseteq DOMAIN sent.query

(* C4: when the store raises, search_crime_events answers success=false,   *)
(* results_count=0, results=[] and the arguments as the caller passed      *)
(* them; get_crime_stats answers success=false, total_events=0,            *)
(* statistics={} and the zipcode, city_pid and hours_back as passed.       *)
C4_StoreFailureEcho ==
    pc = "returned" /\ sent.raised =>
        /\ resp.success = FALSE
        /\ Searched =>
            /\ resp.results_count = 0
            /\ resp.results = <<>>
            /\ resp.query_params = call.args
        /\ Summarised =>
            /\ resp.total_events = 0
            /\ resp.statistics = EmptyDict
            /\ resp.location = [zipcode |-> call.args.zipcode, city_pid |-> call.args.city_pid]
            /\ resp.time_period_hours = call.args.hours_back

C4_Witness ==
    /\ Searched
    /\ sent.raised
    /\ call.args.limit = IntV(500)
    /\ ParseSearch(call.args) # call.args

(* C5: a response has success=false only when the store failed: whatever   *)
(* the arguments, and whatever the store returns without raising, the      *)
(* response has success=true.                                              *)
C5_FailureOnlyFromStore ==
    pc = "returned" => (resp.success = FALSE => sent.raised)

(* C6: for every integer hours_back h the time window of the query has     *)
(* its upper bound at the instant sampled and its lower bound exactly h    *)
(* hours before it.                                                        *)
C6_WindowSpan ==
    sent.kind \in {"find", "aggregate"} /\ call.args.hours_back.t = "int" =>
        /\ sent.query["updated_at"]["$lte"] = now
        /\ sent.query["updated_at"]["$gte"] = now - call.args.hours_back.n

C8_RiskClause ==
    FindSent =>
        LET r == call.args.risk_level
            q == sent.query
            known == r.t = "str" /\ \E l \in RiskLevels : SameIgnoringCase(r.s, l)
        IN  /\ ("risk" \in DOMAIN q) <=> known
            /\ known => q["risk"] \in RiskLevels /\ SameIgnoringCase(r.s, q["risk"])
            /\ ~known =>
                /\ ~sent.raised => resp.success
                /\ q = SearchQuery(ParseSearch([call.args EXCEPT !.risk_level = None]))
            /\ known =>
                [k \in DOMAIN q \ {"risk"} |-> q[k]]
                    = SearchQuery(ParseSearch([call.args EXCEPT !.risk_level = None]))

C8_Witness ==
    /\ FindSent
    /\ call.args.risk_level = StrV(<<"H", "I", "G", "H">>)
    /\ sent.query["risk"] = <<"h", "i", "g", "h">>
    /\ resp.success

(* C9: the query of get_crime_stats carries at most one location clause:   *)
(* the zipcode clause when zipcode is given, whatever city_pid is; else    *)
(* the city_pid clause when city_pid is given; else none; never both and   *)
(* never $or.                                                              *)
C9_StatsLocation ==
    AggregateSent =>
        LET z == call.args.zipcode
            c == call.args.city_pid
            q == sent.query
            zgiven == z.t = "str" /\ z.s # <<>>
            cgiven == c.t = "str" /\ c.s # <<>>
        IN  /\ DOMAIN q \cap {"$or", "geopoint"} = {}
            /\ ~({"zipcodes", "city_pid"} \subseteq DOMAIN q)
            /\ zgiven =>
                /\ "city_pid" \notin DOMAIN q
                /\ "zipcodes" \in DOMAIN q
                /\ q["zipcodes"] = ("$elemMatch" :> ("$in" :> SplitStrip(z.s)))
            /\ ~zgiven /\ cgiven =>
                /\ "zipcodes" \notin DOMAIN q
                /\ "city_pid" \in DOMAIN q
                /\ q["city_pid"] = c.s
            /\ ~zgiven /\ ~cgiven => DOMAIN q \cap LocationKeys = {}

C9_Witness ==
    /\ AggregateSent
    /\ call.args.zipcode = StrV(<<" ", "9", "5", ",", " ", "9", "6">>)
    /\ call.args.city_pid = StrV(<<"s", "f", ",", "c", "a">>)
    /\ sent.query["zipcodes"]["$elemMatch"]["$in"] = <<<<"9", "5">>, <<"9", "6">>>>

(* C10: serialize_document keeps the keys of the record and returns only   *)
(* JSON-representable values: a timestamp as its ISO-8601 string, scalars, *)
(* lists and nested mappings unchanged, anything else as its string form,  *)
(* also when a list or nested mapping holds a timestamp or an opaque       *)
(* value.                                                                  *)
C10_SerializedIsJSON ==
    Searched /\ resp.success =>
        /\ Len(resp.results) = Len(sent.reply)
        /\ \A i \in 1..Len(resp.results) :
            LET doc == sent.reply[i]
                out == resp.results[i]
            IN  /\ DOMAIN out = DOMAIN doc
                /\ \A key \in DOMAIN doc :
                    /\ IsJSON(out[key])
                    /\ doc[key].t = "datetime" => out[key] = StrV(IsoFormat(doc[key].n))
                    /\ doc[key].t \in {"int", "float", "str", "bool", "list", "dict"} =>
                          out[key] = doc[key]

====
